---- MODULE Spec2Model ----
(***************************************************************************)
(* Model of the vector search subsystem of cosline:                        *)
(*   app/services/sqlite_search_service.py   (SQLiteSearchService)         *)
(*   app/services/sqlite_payload_service.py  (SQLitePayloadService)        *)
(*   app/services/sqlite_vector_store_service.py                           *)
(*   app/controllers/search_controller.py    (HTTP mapping)                *)
(*                                                                         *)
(* Numbers.  Embeddings are vectors of small naturals.  float32 values are *)
(* modelled as exact reals of the form d / sqrt(n) (d integer, n positive  *)
(* integer), which is closed under everything the code computes on such    *)
(* vectors; comparisons are done exactly by squaring.                      *)
(*                                                                         *)
(* The FAISS HNSW index is modelled by its contract on small collections   *)
(* (fewer points than efSearch): search returns the k best stored vectors  *)
(* under the index metric, best first, equal distances in insertion order. *)
(***************************************************************************)
EXTENDS Integers, Sequences, FiniteSets, TLC

\* ------------------------------------------------------------------ bounds
MaxId == 2
MaxRows == 2
MaxTopK == 2

Names == {"a", "b"}
Ids == 1..MaxId
\* the payloads that callers post: payload i carries the embedding
\* Catalog[i], cyclically (so ids past the catalog repeat an embedding)
Catalog == << <<1, 0>>, <<2, 1>>, <<0, 1>> >>
EmbeddingOf(id) == Catalog[((id - 1) % Len(Catalog)) + 1]
\* the query vectors that callers post: an empty one, one of another
\* length than the stored embeddings, one of their length
Queries == {<<>>, <<1>>, <<1, 0>>}
TopKs == 0..MaxTopK
Distance == {"Cosine", "Euclidean", "Dot", "Manhattan"}
\* the distance kinds that collections are created with: every kind for
\* "a", the default kind for "b"
Creatable(name) == IF name = "a" THEN Distance ELSE {"Cosine"}
Tasks == {1, 2}

\* ------------------------------------------------------------ vector maths
RECURSIVE DotUpTo(_, _, _)
DotUpTo(a, b, i) == IF i = 0 THEN 0 ELSE a[i] * b[i] + DotUpTo(a, b, i - 1)

\* np.dot(a, b)
Dot(a, b) == DotUpTo(a, b, Len(a))

RECURSIVE SqDistUpTo(_, _, _)
SqDistUpTo(a, b, i) ==
    IF i = 0 THEN 0
    ELSE (a[i] - b[i]) * (a[i] - b[i]) + SqDistUpTo(a, b, i - 1)

\* faiss METRIC_L2: the squared Euclidean distance
SqDist(a, b) == SqDistUpTo(a, b, Len(a))

\* faiss.normalize_L2 leaves a zero vector as it is; the squared norm that a
\* normalized vector [v, unit] is divided by (1 when nothing is divided)
NormDiv(x) == IF x.unit /\ Dot(x.v, x.v) > 0 THEN Dot(x.v, x.v) ELSE 1

\* faiss.normalize_L2 applied to a batch of vectors when flag holds
NormalizeL2(vs, flag) == [i \in DOMAIN vs |-> [v |-> vs[i], unit |-> flag]]

\* the real d / sqrt(n) compared with another: x <= y
SurdLeq(x, y) ==
    IF x.d >= 0 /\ y.d >= 0 THEN x.d * x.d * y.n <= y.d * y.d * x.n
    ELSE IF x.d < 0 /\ y.d < 0 THEN x.d * x.d * y.n >= y.d * y.d * x.n
    ELSE x.d < 0

SurdEq(x, y) == SurdLeq(x, y) /\ SurdLeq(y, x)

MinusOne == [d |-> -1, n |-> 1]

\* ------------------------------------------------------------- the index
\* metric selection of _build_index
FaissMetric(distance_type) ==
    IF distance_type = "Cosine" THEN "IP"
    ELSE IF distance_type \in {"Euclidean", "Manhattan"} THEN "L2"
    ELSE "IP"

\* the distance the index reports between a query and a stored vector
RawDistance(metric, q, x) ==
    IF metric = "IP"
    THEN [d |-> Dot(q.v, x.v), n |-> NormDiv(q) * NormDiv(x)]
    ELSE [d |-> SqDist(q.v, x.v), n |-> 1]

\* the stored vectors with their labels (0-based ordinals) and their
\* distances to the query
RECURSIVE Labelled(_, _, _)
Labelled(index, q, i) ==
    IF i = 0 THEN <<>>
    ELSE Append(Labelled(index, q, i - 1),
                [idx |-> i - 1,
                 dist |-> RawDistance(index.metric, q, index.xb[i])])

\* does candidate a come before candidate b in the index's answer: the
\* larger inner product or the smaller L2 distance first, the earlier
\* ordinal first among equals
Before(metric, a, b) ==
    LET aBetter == IF metric = "IP" THEN ~SurdLeq(a.dist, b.dist)
                   ELSE ~SurdLeq(b.dist, a.dist)
        bBetter == IF metric = "IP" THEN ~SurdLeq(b.dist, a.dist)
                   ELSE ~SurdLeq(a.dist, b.dist)
    IN  aBetter \/ (~bBetter /\ a.idx < b.idx)

RECURSIVE Insert(_, _, _)
Insert(metric, ranked, e) ==
    IF ranked = <<>> THEN <<e>>
    ELSE IF Before(metric, e, Head(ranked)) THEN <<e>> \o ranked
    ELSE <<Head(ranked)>> \o Insert(metric, Tail(ranked), e)

RECURSIVE Ranked(_, _, _)
Ranked(metric, cands, i) ==
    IF i = 0 THEN <<>>
    ELSE Insert(metric, Ranked(metric, cands, i - 1), cands[i])

\* index.search(query, k): labels and distances, best first, padded with
\* label -1 when the index holds fewer than k vectors
IndexSearch(index, q, k) ==
    LET n == Len(index.xb)
        ranked == Ranked(index.metric, Labelled(index, q, n), n)
    IN  [r \in 1..k |->
            IF r <= n THEN ranked[r]
            ELSE [idx |-> -1, dist |-> [d |-> 0, n |-> 1]]]

\* ------------------------------------------------------------------ state
VARIABLES
    collections,  \* table collections: name -> config (JSON column)
    vectors,      \* table vectors: rows in insertion (rowid) order
    index_cache,  \* index_cache of one long-lived SQLiteSearchService
    last,         \* the last completed search call (arguments and outcome),
                  \* forgotten when storage is written
    apiBuilt,     \* names whose index an API request has built since the
                  \* collection was last written
    pc,           \* per task: position inside search_vectors
    req,          \* per task: the arguments of the call in progress
    loc,          \* per task: the locals points and config
    tres,         \* per task: the outcome of its last call
    sim,          \* the last compute_similarity call (arguments and outcome)
    deleted       \* the last delete_collection call: what it returned and
                  \* the collection's rows before and after it

vars == <<collections, vectors, index_cache, last, apiBuilt,
          pc, req, loc, tres, sim, deleted>>

storage == <<collections, vectors>>
taskVars == <<pc, req, loc, tres>>

EmptyCache == [n \in {} |-> 0]

\* ---------------------------------------------------------------- storage
NoCall ==
    [op |-> "none", api |-> FALSE, name |-> "a", query |-> <<>>,
     point_id |-> 0, top_k |-> 0, err |-> [exc |-> "none", msg |-> ""],
     http |-> 0, results |-> <<>>, built |-> FALSE, hit |-> FALSE,
     npoints |-> 0, served |-> {}, rebuilt |-> FALSE, repeat |-> FALSE,
     distance_arg |-> "Cosine", fault |-> "none"]

\* what a write to collection name does to the observation variables
Written(name) ==
    /\ last' = NoCall
    /\ apiBuilt' = apiBuilt \ {name}

\* add_vector_store: INSERT INTO collections; a second row with the same
\* name is rejected
AddVectorStore(name, size, distance) ==
    /\ name \notin DOMAIN collections
    /\ collections' = [n \in DOMAIN collections \cup {name} |->
                          IF n = name
                          THEN [size |-> size, distance |-> distance]
                          ELSE collections[n]]
    /\ Written(name)
    /\ UNCHANGED <<vectors, index_cache, taskVars, sim, deleted>>

StoredIdsAll(vecs) == {vecs[i].id : i \in DOMAIN vecs}

\* add_payload_to_vector_store: INSERT INTO vectors; id is the primary key
\* of the whole table; neither the collection's existence nor the
\* embedding's length is checked
AddPayload(name, id, embedding) ==
    /\ Len(vectors) < MaxRows
    /\ id \notin StoredIdsAll(vectors)
    /\ vectors' = Append(vectors, [id |-> id, vector_store_name |-> name,
                                   embedding |-> embedding])
    /\ Written(name)
    /\ UNCHANGED <<collections, index_cache, taskVars, sim, deleted>>

\* delete_collection: DELETE FROM collections, then DELETE FROM vectors, in
\* one transaction
DeleteCollection(name) ==
    /\ name \in DOMAIN collections
    /\ collections' = [n \in DOMAIN collections \ {name} |-> collections[n]]
    /\ vectors' = SelectSeq(vectors, LAMBDA r : r.vector_store_name # name)
    /\ Written(name)
    /\ UNCHANGED <<index_cache, taskVars, sim, deleted>>

\* the failures that the database can answer a statement of
\* delete_collection with: sqlite3.Error on DELETE FROM collections or on
\* DELETE FROM vectors, the latter either failing the statement alone
\* ("vectors") or ending the open transaction as well ("vectors_abort")
DeleteFaults == {"none", "collections", "vectors", "vectors_abort"}

\* delete_collection called with no connection, and what it returns.
\* sqlite3.Error on the first DELETE leaves the function with False and the
\* closed connection rolls back; no row deleted: ROLLBACK, False;
\* delete_vector_store catches sqlite3.Error on the second DELETE and
\* returns False, which delete_collection does not look at: COMMIT, True;
\* when the failure has ended the transaction, COMMIT raises sqlite3.Error
\* and the function returns False with nothing deleted
DeleteCollectionCall(name, fault) ==
    LET row == name \in DOMAIN collections
        rowGone == row /\ fault \notin {"collections", "vectors_abort"}
        vecsGone == rowGone /\ fault # "vectors"
        colls2 == IF rowGone
                  THEN [n \in DOMAIN collections \ {name} |-> collections[n]]
                  ELSE collections
        vecs2 == IF vecsGone
                 THEN SelectSeq(vectors,
                                LAMBDA r : r.vector_store_name # name)
                 ELSE vectors
        idsOf(vecs) == StoredIdsAll(SelectSeq(vecs,
                           LAMBDA r : r.vector_store_name = name))
    IN  /\ collections' = colls2
        /\ vectors' = vecs2
        /\ deleted' = [called |-> TRUE, name |-> name, fault |-> fault,
                       ret |-> rowGone,
                       rowBefore |-> row, idsBefore |-> idsOf(vectors),
                       rowAfter |-> name \in DOMAIN colls2,
                       idsAfter |-> idsOf(vecs2)]
        /\ Written(name)
        /\ UNCHANGED <<index_cache, taskVars, sim>>

\* update_collection: the optional arguments size and distance (<<>> for
\* None, <<x>> for the value x) replace the fields of the stored config; no
\* row with that name: nothing is written
UpdateCollection(name, size, distance) ==
    /\ name \in DOMAIN collections
    /\ collections' = [collections EXCEPT ![name] =
           [size |-> IF size = <<>> THEN @.size ELSE size[1],
            distance |-> IF distance = <<>> THEN @.distance
                         ELSE distance[1]]]
    /\ Written(name)
    /\ UNCHANGED <<vectors, index_cache, taskVars, sim, deleted>>

\* --------------------------------------------------- SQLiteSearchService
Raise(exc, msg) == [exc |-> exc, msg |-> msg]
NoExc == Raise("none", "")

\* load_points: the rows of the collection as Points, in rowid order
LoadPoints(vecs, name) ==
    LET rows == SelectSeq(vecs, LAMBDA r : r.vector_store_name = name)
    IN  [i \in 1..Len(rows) |->
            [id |-> rows[i].id, embedding |-> rows[i].embedding]]

\* mutant of BuildIndex: the ordinal mapping is built from the point list
\* in reverse order
BuildIndexReversedMapping(points, config) ==
    LET dim == Len(points[1].embedding)
        distance_type == config.distance
        ragged == \E i \in DOMAIN points : Len(points[i].embedding) # dim
        xb == NormalizeL2([i \in DOMAIN points |-> points[i].embedding],
                          distance_type = "Cosine")
    IN  IF ragged
        THEN [err |-> Raise("ValueError", "inhomogeneous shape"),
              entry |-> [n \in {} |-> 0]]
        ELSE [err |-> Raise("none", ""),
              entry |-> [index |-> [d |-> dim,
                                    metric |-> FaissMetric(distance_type),
                                    xb |-> xb],
                         points |-> points,
                         id_mapping |-> [i \in 0..(Len(points) - 1) |->
                                            points[Len(points) - i]],
                         distance_type |-> distance_type]]

\* mutant of BuildIndex: the vectors are not added to the index (index.add
\* inside the try block of index.train, whose failure is only logged)
BuildIndexNoAdd(points, config) ==
    LET dim == Len(points[1].embedding)
        distance_type == config.distance
        ragged == \E i \in DOMAIN points : Len(points[i].embedding) # dim
    IN  IF ragged
        THEN [err |-> Raise("ValueError", "inhomogeneous shape"),
              entry |-> [n \in {} |-> 0]]
        ELSE [err |-> Raise("none", ""),
              entry |-> [index |-> [d |-> dim,
                                    metric |-> FaissMetric(distance_type),
                                    xb |-> <<>>],
                         points |-> points,
                         id_mapping |-> [i \in 0..(Len(points) - 1) |->
                                            points[i + 1]],
                         distance_type |-> distance_type]]

\* _build_index from "dim = ..." to the entry it stores in the cache;
\* np.array of embeddings of unequal lengths is rejected with ValueError
BuildIndex(points, config) ==
    LET dim == Len(points[1].embedding)
        distance_type == config.distance
        metric == FaissMetric(distance_type)
        ragged == \E i \in DOMAIN points : Len(points[i].embedding) # dim
        xb == NormalizeL2([i \in DOMAIN points |-> points[i].embedding],
                          distance_type = "Cosine")
    IN  IF ragged
        THEN [err |-> Raise("ValueError", "inhomogeneous shape"),
              entry |-> EmptyCache]
        ELSE [err |-> NoExc,
              entry |-> [index |-> [d |-> dim, metric |-> metric, xb |-> xb],
                         points |-> points,
                         id_mapping |-> [i \in 0..(Len(points) - 1) |->
                                            points[i + 1]],
                         distance_type |-> distance_type]]

\* self.index_cache[vector_name] = {...}
CacheStore(cache, name, entry) ==
    [n \in DOMAIN cache \cup {name} |-> IF n = name THEN entry ELSE cache[n]]

Min(a, b) == IF a <= b THEN a ELSE b

\* mutant of ToScore: every distance kind is converted by 1 / (1 + x)
ToScoreRecipOnly(distance_type, dist) == [kind |-> "recip", x |-> dist]

\* the distance-to-score conversion of search_vectors: the real (1 + x) / 2
\* (kind "half") or 1 / (1 + x) (kind "recip") for the raw distance x
ToScore(distance_type, dist) ==
    IF distance_type = "Cosine"
    THEN [kind |-> "half", x |-> dist]
    ELSE [kind |-> "recip", x |-> dist]

\* mutant of QueryIndex: the query vector is never normalised
QueryIndexRawQuery(index_data, query_vector, top_k) ==
    LET query == [v |-> query_vector, unit |-> FALSE]
        k == IF top_k <= Len(index_data.points) THEN top_k
             ELSE Len(index_data.points)
        found == IndexSearch(index_data.index, query, k)
        hits == SelectSeq(found, LAMBDA f : f.idx >= 0)
    IN  IF Len(query_vector) # index_data.index.d \/ k <= 0
        THEN [err |-> Raise("AssertionError", ""), results |-> <<>>]
        ELSE [err |-> Raise("none", ""),
              results |-> [i \in 1..Len(hits) |->
                  [id |-> index_data.id_mapping[hits[i].idx].id,
                   score |-> ToScore(index_data.distance_type,
                                     hits[i].dist)]]]

\* mutant of QueryIndex: the index is asked for every point it holds, top_k
\* is not applied
QueryIndexNoTopK(index_data, query_vector, top_k) ==
    LET query == [v |-> query_vector,
                  unit |-> index_data.distance_type = "Cosine"]
        k == Len(index_data.points)
        found == IndexSearch(index_data.index, query, k)
        hits == SelectSeq(found, LAMBDA f : f.idx >= 0)
    IN  IF Len(query_vector) # index_data.index.d \/ top_k <= 0
        THEN [err |-> Raise("AssertionError", ""), results |-> <<>>]
        ELSE [err |-> NoExc,
              results |-> [i \in 1..Len(hits) |->
                  [id |-> index_data.id_mapping[hits[i].idx].id,
                   score |-> ToScore(index_data.distance_type,
                                     hits[i].dist)]]]

\* the part of search_vectors after "index_data = self.index_cache[...]";
\* faiss asserts the query's width and k > 0
QueryIndex(index_data, query_vector, top_k) ==
    LET query == [v |-> query_vector,
                  unit |-> index_data.distance_type = "Cosine"]
        k == Min(top_k, Len(index_data.points))
        found == IndexSearch(index_data.index, query, k)
        hits == SelectSeq(found, LAMBDA f : f.idx >= 0)
    IN  IF Len(query_vector) # index_data.index.d \/ k <= 0
        THEN [err |-> Raise("AssertionError", ""), results |-> <<>>]
        ELSE [err |-> NoExc,
              results |-> [i \in 1..Len(hits) |->
                  [id |-> index_data.id_mapping[hits[i].idx].id,
                   score |-> ToScore(index_data.distance_type,
                                     hits[i].dist)]]]

\* the order of two scores of one kind: s1 <= s2.  1 / (1 + x) is negative
\* below x = -1, infinite at x = -1 (numpy float division) and positive above
ScoreClass(x) ==
    IF SurdEq(x, MinusOne) THEN 2 ELSE IF SurdLeq(MinusOne, x) THEN 1 ELSE 0

ScoreLeq(s1, s2) ==
    IF s1.kind = "half"
    THEN SurdLeq(s1.x, s2.x)
    ELSE \/ ScoreClass(s1.x) < ScoreClass(s2.x)
         \/ ScoreClass(s1.x) = ScoreClass(s2.x) /\ SurdLeq(s2.x, s1.x)

Outcome(cache, err, results, built, hit, served) ==
    [cache |-> cache, err |-> err, results |-> results, built |-> built,
     hit |-> hit, npoints |-> Len(served),
     served |-> {served[i].id : i \in DOMAIN served}]

\* mutant of SearchVectors: the config is read before the cache is looked
\* at, on every call
SearchVectorsConfigFirst(cache, colls, vecs, vector_name, query_vector, top_k) ==
    LET hit == vector_name \in DOMAIN cache
        points == LoadPoints(vecs, vector_name)
        b == BuildIndex(points, colls[vector_name])
        cache2 == IF hit THEN cache
                  ELSE CacheStore(cache, vector_name, b.entry)
        q == QueryIndex(cache2[vector_name], query_vector, top_k)
    IN  IF vector_name \notin DOMAIN colls
        THEN Outcome(cache, Raise("FileNotFoundError",
                 "Vector store not found"), <<>>, FALSE, hit, <<>>)
        ELSE IF ~hit /\ Len(points) = 0
        THEN Outcome(cache, Raise("FileNotFoundError",
                 "Vector store not found or empty"), <<>>, FALSE, hit, <<>>)
        ELSE IF ~hit /\ b.err.exc # "none"
        THEN Outcome(cache, b.err, <<>>, FALSE, hit, <<>>)
        ELSE Outcome(cache2, q.err, q.results, ~hit, hit,
                     cache2[vector_name].points)

\* mutant of SearchVectors: the points and the config are loaded and the
\* index is built on every call, whether the cache holds an entry or not
SearchVectorsReload(cache, colls, vecs, vector_name, query_vector, top_k) ==
    LET hit == vector_name \in DOMAIN cache
        points == LoadPoints(vecs, vector_name)
        b == BuildIndex(points, colls[vector_name])
        cache2 == CacheStore(cache, vector_name, b.entry)
        q == QueryIndex(cache2[vector_name], query_vector, top_k)
    IN  IF Len(points) = 0
        THEN Outcome(cache, Raise("FileNotFoundError",
                 "Vector store not found or empty"), <<>>, FALSE, hit, <<>>)
        ELSE IF vector_name \notin DOMAIN colls
        THEN Outcome(cache, Raise("FileNotFoundError",
                 "Vector store not found"), <<>>, FALSE, hit, <<>>)
        ELSE IF b.err.exc # "none"
        THEN Outcome(cache, b.err, <<>>, FALSE, hit, <<>>)
        ELSE Outcome(cache2, q.err, q.results, ~hit, hit,
                     cache2[vector_name].points)

\* mutant of SearchVectors: the entry is stored before the config is read,
\* built for the default distance kind, and stays when the config is missing
SearchVectorsEarlyStore(cache, colls, vecs, vector_name, query_vector, top_k) ==
    LET hit == vector_name \in DOMAIN cache
        points == LoadPoints(vecs, vector_name)
        early == BuildIndex(points, [size |-> 0, distance |-> "Cosine"])
        b == BuildIndex(points, colls[vector_name])
        cache2 == IF hit THEN cache
                  ELSE CacheStore(cache, vector_name, b.entry)
        q == QueryIndex(cache2[vector_name], query_vector, top_k)
    IN  IF ~hit /\ Len(points) = 0
        THEN Outcome(cache, Raise("FileNotFoundError",
                 "Vector store not found or empty"), <<>>, FALSE, hit, <<>>)
        ELSE IF ~hit /\ vector_name \notin DOMAIN colls
        THEN Outcome(IF early.err.exc = "none"
                     THEN CacheStore(cache, vector_name, early.entry)
                     ELSE cache,
                     Raise("FileNotFoundError", "Vector store not found"),
                     <<>>, FALSE, hit, <<>>)
        ELSE IF ~hit /\ b.err.exc # "none"
        THEN Outcome(cache, b.err, <<>>, FALSE, hit, <<>>)
        ELSE Outcome(cache2, q.err, q.results, ~hit, hit,
                     cache2[vector_name].points)

\* mutant of SearchVectors: on a cache hit the query is normalised and the
\* scores are converted as for the default distance_type argument (Cosine),
\* not as for the distance kind recorded in the entry
SearchVectorsHitDefault(cache, colls, vecs, vector_name, query_vector, top_k) ==
    LET hit == vector_name \in DOMAIN cache
        points == LoadPoints(vecs, vector_name)
        b == BuildIndex(points, colls[vector_name])
        cache2 == IF hit THEN cache
                  ELSE CacheStore(cache, vector_name, b.entry)
        used == IF hit
                THEN [cache2[vector_name] EXCEPT !.distance_type = "Cosine"]
                ELSE cache2[vector_name]
        q == QueryIndex(used, query_vector, top_k)
    IN  IF ~hit /\ Len(points) = 0
        THEN Outcome(cache, Raise("FileNotFoundError",
                 "Vector store not found or empty"), <<>>, FALSE, hit, <<>>)
        ELSE IF ~hit /\ vector_name \notin DOMAIN colls
        THEN Outcome(cache, Raise("FileNotFoundError",
                 "Vector store not found"), <<>>, FALSE, hit, <<>>)
        ELSE IF ~hit /\ b.err.exc # "none"
        THEN Outcome(cache, b.err, <<>>, FALSE, hit, <<>>)
        ELSE Outcome(cache2, q.err, q.results, ~hit, hit,
                     cache2[vector_name].points)

\* search_vectors, run without interruption on an instance whose cache is
\* cache: the new cache and what the call returns or raises
SearchVectors(cache, colls, vecs, vector_name, query_vector, top_k) ==
    LET hit == vector_name \in DOMAIN cache
        points == LoadPoints(vecs, vector_name)
        b == BuildIndex(points, colls[vector_name])
        cache2 == IF hit THEN cache
                  ELSE CacheStore(cache, vector_name, b.entry)
        q == QueryIndex(cache2[vector_name], query_vector, top_k)
    IN  IF ~hit /\ Len(points) = 0
        THEN Outcome(cache, Raise("FileNotFoundError",
                 "Vector store not found or empty"), <<>>, FALSE, hit, <<>>)
        ELSE IF ~hit /\ vector_name \notin DOMAIN colls
        THEN Outcome(cache, Raise("FileNotFoundError",
                 "Vector store not found"), <<>>, FALSE, hit, <<>>)
        ELSE IF ~hit /\ b.err.exc # "none"
        THEN Outcome(cache, b.err, <<>>, FALSE, hit, <<>>)
        ELSE Outcome(cache2, q.err, q.results, ~hit, hit,
                     cache2[vector_name].points)

\* the failures that the database and faiss can answer a step of a build
\* with: sqlite3.Error in load_points or in _get_vector_store_config, an
\* exception of index.train or of index.add
Faults == {"none", "load", "config", "train", "add"}

\* the step that fault fails is reached by the call: on a cache miss,
\* after the steps before it have passed
FaultReached(cache, colls, vecs, vector_name, fault) ==
    LET points == LoadPoints(vecs, vector_name)
        built == /\ Len(points) > 0
                 /\ vector_name \in DOMAIN colls
                 /\ BuildIndex(points, colls[vector_name]).err.exc = "none"
    IN  /\ vector_name \notin DOMAIN cache
        /\ \/ fault = "load"
           \/ fault = "config" /\ Len(points) > 0
           \/ fault \in {"train", "add"} /\ built

\* mutant of SearchVectorsIn: an entry found in the cache is queried, and
\* its distances are converted, as for the distance_type argument
SearchVectorsInUsesArg(cache, colls, vecs, vector_name, query_vector, top_k, distance_type, fault) ==
    LET reached == FaultReached(cache, colls, vecs, vector_name, fault)
        q == QueryIndex([cache[vector_name] EXCEPT
                             !.distance_type = distance_type],
                        query_vector, top_k)
    IN  IF vector_name \in DOMAIN cache
        THEN Outcome(cache, q.err, q.results, FALSE, TRUE,
                     cache[vector_name].points)
        ELSE IF reached /\ fault = "load"
        THEN Outcome(cache, Raise("RuntimeError",
                 "Failed to load points from database"),
                 <<>>, FALSE, FALSE, <<>>)
        ELSE IF reached /\ fault = "config"
        THEN Outcome(cache, Raise("sqlite3.Error", ""),
                     <<>>, FALSE, FALSE, <<>>)
        ELSE IF reached /\ fault = "add"
        THEN Outcome(cache, Raise("RuntimeError", "faiss"),
                     <<>>, FALSE, FALSE, <<>>)
        ELSE SearchVectors(cache, colls, vecs, vector_name, query_vector,
                           top_k)

\* search_vectors with its four arguments, where the database or faiss
\* fails the step named by fault: load_points wraps sqlite3.Error into
\* RuntimeError, _get_vector_store_config re-raises it, an exception of
\* index.train is logged and the build goes on, an exception of index.add
\* leaves _build_index; distance_type is not read
SearchVectorsIn(cache, colls, vecs, vector_name, query_vector, top_k, distance_type, fault) ==
    LET reached == FaultReached(cache, colls, vecs, vector_name, fault)
    IN  IF reached /\ fault = "load"
        THEN Outcome(cache, Raise("RuntimeError",
                 "Failed to load points from database"),
                 <<>>, FALSE, FALSE, <<>>)
        ELSE IF reached /\ fault = "config"
        THEN Outcome(cache, Raise("sqlite3.Error", ""),
                     <<>>, FALSE, FALSE, <<>>)
        ELSE IF reached /\ fault = "add"
        THEN Outcome(cache, Raise("RuntimeError", "faiss"),
                     <<>>, FALSE, FALSE, <<>>)
        ELSE SearchVectors(cache, colls, vecs, vector_name, query_vector,
                           top_k)

\* mutant of SearchById: the point is looked up by id alone, in whatever
\* collection it is stored
SearchByIdAnyStore(cache, colls, vecs, vector_name, point_id, top_k) ==
    LET rows == SelectSeq(vecs, LAMBDA r : r.id = point_id)
    IN  IF Len(rows) = 0
        THEN Outcome(cache, Raise("ValueError", "Point not found"),
                     <<>>, FALSE, FALSE, <<>>)
        ELSE SearchVectors(cache, colls, vecs, vector_name,
                           rows[1].embedding, top_k)

\* mutant of SearchById: when the cache holds an entry of the collection,
\* the point and its embedding are taken from the entry's snapshot
SearchByIdFromCache(cache, colls, vecs, vector_name, point_id, top_k) ==
    LET rows == SelectSeq(vecs, LAMBDA r :
                    r.vector_store_name = vector_name /\ r.id = point_id)
        snap == IF vector_name \in DOMAIN cache
                THEN SelectSeq(cache[vector_name].points,
                               LAMBDA r : r.id = point_id)
                ELSE rows
    IN  IF Len(snap) = 0
        THEN Outcome(cache, Raise("ValueError", "Point not found"),
                     <<>>, FALSE, FALSE, <<>>)
        ELSE SearchVectors(cache, colls, vecs, vector_name,
                           snap[1].embedding, top_k)

\* search_by_id: the stored embedding of the point, then search_vectors
SearchById(cache, colls, vecs, vector_name, point_id, top_k) ==
    LET rows == SelectSeq(vecs, LAMBDA r :
                    r.vector_store_name = vector_name /\ r.id = point_id)
    IN  IF Len(rows) = 0
        THEN Outcome(cache, Raise("ValueError", "Point not found"),
                     <<>>, FALSE, FALSE, <<>>)
        ELSE SearchVectors(cache, colls, vecs, vector_name,
                           rows[1].embedding, top_k)

\* ----------------------------------------------------- compute_similarity
Abs(x) == IF x < 0 THEN -x ELSE x

\* numpy broadcasting of two one-dimensional arrays: the lengths are equal
\* or one of them is 1; element i of an operand of length 1 is its only one
Broadcastable(a, b) == Len(a) = Len(b) \/ Len(a) = 1 \/ Len(b) = 1
BroadcastLen(a, b) == IF Len(a) = 1 THEN Len(b) ELSE Len(a)
At(a, i) == IF Len(a) = 1 THEN a[1] ELSE a[i]

RECURSIVE SumSqDiff(_, _, _)
SumSqDiff(a, b, i) ==
    IF i = 0 THEN 0
    ELSE (At(a, i) - At(b, i)) * (At(a, i) - At(b, i))
             + SumSqDiff(a, b, i - 1)

RECURSIVE SumAbsDiff(_, _, _)
SumAbsDiff(a, b, i) ==
    IF i = 0 THEN 0 ELSE Abs(At(a, i) - At(b, i)) + SumAbsDiff(a, b, i - 1)

\* a float value: NaN, or the real d / sqrt(n)
NaN == [nan |-> TRUE, d |-> 0, n |-> 1]
Real(d, n) == [nan |-> FALSE, d |-> d, n |-> n]

\* x / np.linalg.norm(x) has NaN elements (0 / 0) when x is not empty and
\* all its elements are zero
HasNaN(x) == Len(x) > 0 /\ Dot(x, x) = 0

\* the squared norm that the elements of x / np.linalg.norm(x) are divided
\* by (1 for the empty array, which division leaves empty)
NormSq(x) == IF Len(x) = 0 THEN 1 ELSE Dot(x, x)

\* mutant of ComputeSimilarity: for Cosine only the query is divided by its
\* norm, the point vector is used as it is
ComputeSimilarityQueryNormOnly(distance_type, query_vector, point_vector) ==
    LET a == query_vector
        b == point_vector
        mismatch == [err |-> Raise("ValueError", "shapes"), value |-> NaN]
        m == BroadcastLen(a, b)
    IN  IF distance_type \in {"Cosine", "Dot"}
        THEN IF Len(a) # Len(b) THEN mismatch
             ELSE IF distance_type = "Dot"
             THEN [err |-> Raise("none", ""), value |-> Real(Dot(a, b), 1)]
             ELSE IF HasNaN(a)
             THEN [err |-> Raise("none", ""), value |-> NaN]
             ELSE [err |-> Raise("none", ""),
                   value |-> Real(Dot(a, b), NormSq(a))]
        ELSE IF ~Broadcastable(a, b) THEN mismatch
        ELSE IF distance_type = "Euclidean"
        THEN [err |-> Raise("none", ""),
              value |-> IF SumSqDiff(a, b, m) = 0 THEN Real(0, 1)
                        ELSE Real(-SumSqDiff(a, b, m), SumSqDiff(a, b, m))]
        ELSE [err |-> Raise("none", ""),
              value |-> Real(-SumAbsDiff(a, b, m), 1)]

\* mutant of ComputeSimilarity: the Euclidean and Manhattan distances are
\* returned without the negation
ComputeSimilarityNoNegate(distance_type, query_vector, point_vector) ==
    LET a == query_vector
        b == point_vector
        mismatch == [err |-> Raise("ValueError", "shapes"), value |-> NaN]
        m == BroadcastLen(a, b)
    IN  IF distance_type \in {"Cosine", "Dot"}
        THEN IF Len(a) # Len(b) THEN mismatch
             ELSE IF distance_type = "Dot"
             THEN [err |-> Raise("none", ""), value |-> Real(Dot(a, b), 1)]
             ELSE IF HasNaN(a) \/ HasNaN(b)
             THEN [err |-> Raise("none", ""), value |-> NaN]
             ELSE [err |-> Raise("none", ""),
                   value |-> Real(Dot(a, b), NormSq(a) * NormSq(b))]
        ELSE IF ~Broadcastable(a, b) THEN mismatch
        ELSE IF distance_type = "Euclidean"
        THEN [err |-> Raise("none", ""),
              value |-> IF SumSqDiff(a, b, m) = 0 THEN Real(0, 1)
                        ELSE Real(SumSqDiff(a, b, m), SumSqDiff(a, b, m))]
        ELSE [err |-> Raise("none", ""),
              value |-> Real(SumAbsDiff(a, b, m), 1)]

\* compute_similarity: what it returns or raises.  np.dot of two
\* one-dimensional arrays of unequal lengths and the subtraction of two
\* arrays that do not broadcast raise ValueError; division by a zero norm
\* gives NaN elements and raises nothing
ComputeSimilarity(distance_type, query_vector, point_vector) ==
    LET a == query_vector
        b == point_vector
        mismatch == [err |-> Raise("ValueError", "shapes"), value |-> NaN]
        m == BroadcastLen(a, b)
    IN  IF distance_type \in {"Cosine", "Dot"}
        THEN IF Len(a) # Len(b) THEN mismatch
             ELSE IF distance_type = "Dot"
             THEN [err |-> NoExc, value |-> Real(Dot(a, b), 1)]
             ELSE IF HasNaN(a) \/ HasNaN(b)
             THEN [err |-> NoExc, value |-> NaN]
             ELSE [err |-> NoExc,
                   value |-> Real(Dot(a, b), NormSq(a) * NormSq(b))]
        ELSE IF ~Broadcastable(a, b) THEN mismatch
        ELSE IF distance_type = "Euclidean"
        THEN [err |-> NoExc,
              value |-> IF SumSqDiff(a, b, m) = 0 THEN Real(0, 1)
                        ELSE Real(-SumSqDiff(a, b, m), SumSqDiff(a, b, m))]
        ELSE [err |-> NoExc, value |-> Real(-SumAbsDiff(a, b, m), 1)]

\* a caller calls compute_similarity
ComputeSimilarityCall(distance_type, query_vector, point_vector) ==
    LET o == ComputeSimilarity(distance_type, query_vector, point_vector)
    IN  /\ sim' = [called |-> TRUE, metric |-> distance_type,
                   a |-> query_vector, b |-> point_vector,
                   err |-> o.err, value |-> o.value]
        /\ UNCHANGED <<storage, index_cache, last, apiBuilt, taskVars, deleted>>

\* ------------------------------------------------------ search_controller
\* the except clauses of the endpoint search_vectors
HttpSearchVectors(err) ==
    IF err.exc = "none" THEN 200
    ELSE IF err.exc = "ValueError" THEN 400
    ELSE IF err.exc = "FileNotFoundError" THEN 404
    ELSE 500

\* the except clauses of the endpoint search_by_id
HttpSearchById(err) ==
    IF err.exc = "none" THEN 200
    ELSE IF err.exc = "ValueError" THEN 400
    ELSE IF err.exc = "FileNotFoundError" THEN 404
    ELSE IF err.exc = "RuntimeError" /\ err.msg = "Point not found" THEN 404
    ELSE 500

\* ------------------------------------------------- calls run to completion
Completed(op, api, name, query, point_id, top_k, o, http) ==
    [op |-> op, api |-> api, name |-> name, query |-> query,
     point_id |-> point_id, top_k |-> top_k, err |-> o.err, http |-> http,
     results |-> o.results, built |-> o.built, hit |-> o.hit,
     npoints |-> o.npoints, served |-> o.served,
     rebuilt |-> api /\ o.built /\ name \in apiBuilt,
     repeat |-> /\ last.op = op /\ last.api = api /\ last.name = name
                /\ last.query = query /\ last.point_id = point_id
                /\ last.top_k = top_k,
     distance_arg |-> "Cosine", fault |-> "none"]

\* a caller that holds one SQLiteSearchService calls search_vectors on it
SvcSearchVectors(name, query, top_k) ==
    LET o == SearchVectors(index_cache, collections, vectors,
                           name, query, top_k)
    IN  /\ index_cache' = o.cache
        /\ last' = Completed("search_vectors", FALSE, name, query, 0,
                             top_k, o, 0)
        /\ UNCHANGED <<storage, apiBuilt, taskVars, sim, deleted>>

\* a caller that holds one SQLiteSearchService calls search_by_id on it
SvcSearchById(name, point_id, top_k) ==
    LET o == SearchById(index_cache, collections, vectors,
                        name, point_id, top_k)
    IN  /\ index_cache' = o.cache
        /\ last' = Completed("search_by_id", FALSE, name, <<>>, point_id,
                             top_k, o, 0)
        /\ UNCHANGED <<storage, apiBuilt, taskVars, sim, deleted>>

\* a caller that holds one SQLiteSearchService calls search_vectors with a
\* distance_type argument, and the database or faiss fails a step
SvcSearchVectorsIn(name, query, top_k, distance_type, fault) ==
    LET o == SearchVectorsIn(index_cache, collections, vectors, name, query,
                             top_k, distance_type, fault)
        reached == FaultReached(index_cache, collections, vectors, name,
                                fault)
    IN  /\ index_cache' = o.cache
        /\ last' = [Completed("search_vectors", FALSE, name, query, 0,
                              top_k, o, 0)
                        EXCEPT !.distance_arg = distance_type,
                               !.fault = IF reached THEN fault ELSE "none"]
        /\ UNCHANGED <<storage, apiBuilt, taskVars, sim, deleted>>

\* POST /{vector_name}/search: get_search_service constructs a new
\* SQLiteSearchService (empty index_cache) for the request; the endpoint
\* rejects an empty query_vector before it calls the service
ApiSearchVectors(name, query, top_k) ==
    LET o == IF query = <<>>
             THEN Outcome(EmptyCache,
                          Raise("ValueError", "Query vector cannot be empty"),
                          <<>>, FALSE, FALSE, <<>>)
             ELSE SearchVectors(EmptyCache, collections, vectors,
                                name, query, top_k)
    IN  /\ last' = Completed("search_vectors", TRUE, name, query, 0,
                             top_k, o, HttpSearchVectors(o.err))
        /\ apiBuilt' = IF o.built THEN apiBuilt \cup {name} ELSE apiBuilt
        /\ UNCHANGED <<storage, index_cache, taskVars, sim, deleted>>

\* POST /{vector_name}/search_by_id, on a new SQLiteSearchService as well
ApiSearchById(name, point_id, top_k) ==
    LET o == SearchById(EmptyCache, collections, vectors,
                        name, point_id, top_k)
    IN  /\ last' = Completed("search_by_id", TRUE, name, <<>>, point_id,
                             top_k, o, HttpSearchById(o.err))
        /\ apiBuilt' = IF o.built THEN apiBuilt \cup {name} ELSE apiBuilt
        /\ UNCHANGED <<storage, index_cache, taskVars, sim, deleted>>

\* ------------------------------------------- calls that can be interleaved
\* search_vectors as a task: the awaits of load_points,
\* _get_vector_store_config and _build_index are its scheduling points.
\* An API task runs on the SQLiteSearchService of its own request.
Finish(t, err, results, built) ==
    /\ pc' = [pc EXCEPT ![t] = "idle"]
    /\ tres' = [tres EXCEPT ![t] = [done |-> TRUE, err |-> err,
                                    results |-> results, built |-> built]]
    /\ loc' = [loc EXCEPT ![t] = [points |-> <<>>, distance |-> "none"]]

\* mutant of Call: one lock for the whole cache, a call starts only when no
\* other caller is between its cache miss and the end of its build
CallUnderGlobalLock(t, api, name, query, top_k) ==
    LET cache == IF api THEN [n \in {} |-> 0] ELSE index_cache
        points == LoadPoints(vectors, name)
    IN  /\ pc[t] = "idle"
        /\ \A u \in Tasks : pc[u] = "idle"
        /\ req' = [req EXCEPT ![t] = [op |-> "search_vectors", api |-> api,
                       name |-> name, query |-> query, top_k |-> top_k]]
        /\ IF name \in DOMAIN cache
           THEN LET q == QueryIndex(cache[name], query, top_k)
                IN  Finish(t, q.err, q.results, FALSE)
           ELSE IF Len(points) = 0
           THEN Finish(t, Raise("FileNotFoundError",
                           "Vector store not found or empty"), <<>>, FALSE)
           ELSE /\ pc' = [pc EXCEPT ![t] = "config"]
                /\ loc' = [loc EXCEPT ![t] = [points |-> points,
                                              distance |-> "none"]]
                /\ tres' = [tres EXCEPT ![t] = [done |-> FALSE,
                                err |-> Raise("none", ""), results |-> <<>>,
                                built |-> FALSE]]
        /\ UNCHANGED <<storage, index_cache, last, apiBuilt, sim, deleted>>

\* lines 172-173: the cache lookup, then load_points on a miss
Call(t, api, name, query, top_k) ==
    LET cache == IF api THEN EmptyCache ELSE index_cache
        points == LoadPoints(vectors, name)
    IN  /\ pc[t] = "idle"
        /\ req' = [req EXCEPT ![t] = [op |-> "search_vectors", api |-> api,
                       name |-> name, query |-> query, top_k |-> top_k]]
        /\ IF name \in DOMAIN cache
           THEN LET q == QueryIndex(cache[name], query, top_k)
                IN  Finish(t, q.err, q.results, FALSE)
           ELSE IF Len(points) = 0
           THEN Finish(t, Raise("FileNotFoundError",
                           "Vector store not found or empty"), <<>>, FALSE)
           ELSE /\ pc' = [pc EXCEPT ![t] = "config"]
                /\ loc' = [loc EXCEPT ![t] = [points |-> points,
                                              distance |-> "none"]]
                /\ tres' = [tres EXCEPT ![t] = [done |-> FALSE,
                                err |-> NoExc, results |-> <<>>,
                                built |-> FALSE]]
        /\ UNCHANGED <<storage, index_cache, last, apiBuilt, sim, deleted>>

\* line 174: _get_vector_store_config
GetConfig(t) ==
    /\ pc[t] = "config"
    /\ IF req[t].name \in DOMAIN collections
       THEN /\ pc' = [pc EXCEPT ![t] = "build"]
            /\ loc' = [loc EXCEPT ![t].distance =
                           collections[req[t].name].distance]
            /\ UNCHANGED tres
       ELSE Finish(t, Raise("FileNotFoundError", "Vector store not found"),
                   <<>>, FALSE)
    /\ UNCHANGED <<storage, index_cache, last, apiBuilt, req, sim, deleted>>

\* lines 175-210: _build_index stores the entry, the entry is read back
\* from the cache and queried
Build(t) ==
    LET name == req[t].name
        cache == IF req[t].api THEN EmptyCache ELSE index_cache
        b == BuildIndex(loc[t].points,
                        [size |-> 0, distance |-> loc[t].distance])
        cache2 == CacheStore(cache, name, b.entry)
        q == QueryIndex(cache2[name], req[t].query, req[t].top_k)
    IN  /\ pc[t] = "build"
        /\ IF b.err.exc # "none"
           THEN /\ Finish(t, b.err, <<>>, FALSE)
                /\ UNCHANGED index_cache
           ELSE /\ Finish(t, q.err, q.results, TRUE)
                /\ index_cache' = IF req[t].api THEN index_cache ELSE cache2
        /\ UNCHANGED <<storage, last, apiBuilt, req, sim, deleted>>

\* the caller's task is cancelled while search_vectors is suspended at the
\* await of _get_vector_store_config or of _build_index: CancelledError is
\* raised there and leaves search_vectors
Cancel(t) ==
    /\ pc[t] \in {"config", "build"}
    /\ Finish(t, Raise("CancelledError", ""), <<>>, FALSE)
    /\ UNCHANGED <<storage, index_cache, last, apiBuilt, req, sim, deleted>>

\* ----------------------------------------------------------- specification
Idle == [op |-> "none", api |-> FALSE, name |-> "a", query |-> <<>>,
         top_k |-> 0]
ConcQueries == {<<1, 0>>}
\* the embeddings posted with payload id by concurrent writers: the
\* catalog's and, for payload 1, also one of another length
ConcEmbeddings(id) ==
    IF id = 1 THEN {EmbeddingOf(id), <<1>>} ELSE {EmbeddingOf(id)}
NoLocals == [points |-> <<>>, distance |-> "none"]
NoResult == [done |-> FALSE, err |-> NoExc, results |-> <<>>,
             built |-> FALSE]
NoDelete == [called |-> FALSE, name |-> "a", fault |-> "none",
             ret |-> FALSE, rowBefore |-> FALSE, idsBefore |-> {},
             rowAfter |-> FALSE, idsAfter |-> {}]
NoSim == [called |-> FALSE, metric |-> "Cosine", a |-> <<>>, b |-> <<>>,
          err |-> NoExc, value |-> Real(0, 1)]

Init ==
    /\ collections = EmptyCache
    /\ vectors = <<>>
    /\ index_cache = EmptyCache
    /\ last = NoCall
    /\ apiBuilt = {}
    /\ pc = [t \in Tasks |-> "idle"]
    /\ req = [t \in Tasks |-> Idle]
    /\ loc = [t \in Tasks |-> NoLocals]
    /\ tres = [t \in Tasks |-> NoResult]
    /\ sim = NoSim
    /\ deleted = NoDelete

\* the writers of storage: collection creation and point insertion
WriteStep ==
    \/ \E name \in Names : \E distance \in Creatable(name) :
           AddVectorStore(name, 2, distance)
    \/ \E name \in Names, id \in Ids :
           AddPayload(name, id, EmbeddingOf(id))

StorageStep ==
    \/ WriteStep
    \/ \E name \in Names : DeleteCollection(name)

\* requests through the API layer
Next ==
    \/ StorageStep
    \/ \E name \in Names, q \in Queries, k \in TopKs :
           ApiSearchVectors(name, q, k)
    \/ \E name \in Names, id \in Ids, k \in TopKs :
           ApiSearchById(name, id, k)

Spec == Init /\ [][Next]_vars

\* calls on one long-lived service instance
NextSvc ==
    \/ WriteStep
    \/ \E name \in Names, q \in Queries, k \in TopKs :
           SvcSearchVectors(name, q, k)
    \/ \E name \in Names, id \in Ids, k \in TopKs :
           SvcSearchById(name, id, k)

SpecSvc == Init /\ [][NextSvc]_vars

\* the life of collections under one long-lived service instance:
\* creation, insertion, update, deletion and searches
LifeUpdates == {[size |-> <<3>>, distance |-> <<>>],
                [size |-> <<>>, distance |-> <<"Euclidean">>]}
LifeQueries == {<<1, 0>>}
LifeNames == {"a"}

NextLife ==
    \/ \E name \in LifeNames : AddVectorStore(name, 2, "Cosine")
    \/ \E name \in LifeNames, id \in Ids :
           AddPayload(name, id, EmbeddingOf(id))
    \/ \E name \in LifeNames : DeleteCollection(name)
    \/ \E name \in LifeNames, u \in LifeUpdates :
           UpdateCollection(name, u.size, u.distance)
    \/ \E name \in LifeNames, q \in LifeQueries :
           SvcSearchVectors(name, q, MaxTopK)
    \/ \E name \in LifeNames, id \in Ids :
           SvcSearchById(name, id, MaxTopK)

SpecLife == Init /\ [][NextLife]_vars

\* searches of one Cosine collection of three-dimensional points
CosCatalog == << <<1, 0, 0>>, <<0, 1, 0>>, <<1, 1, 0>> >>
CosEmbeddingOf(id) == CosCatalog[((id - 1) % Len(CosCatalog)) + 1]
CosQueries == {<<1, 0, 0>>, <<0, 1, 0>>, <<1, 2, 0>>}

NextCos ==
    \/ AddVectorStore("a", 3, "Cosine")
    \/ \E id \in Ids : AddPayload("a", id, CosEmbeddingOf(id))
    \/ \E q \in CosQueries, k \in TopKs : SvcSearchVectors("a", q, k)

SpecCos == Init /\ [][NextCos]_vars

\* search_vectors calls with every argument, under failures of the
\* database and of faiss
CallNames == {"a"}
CallDistanceArgs == {"Cosine", "Euclidean"}

NextCall ==
    \/ \E name \in CallNames, distance \in Distance :
           AddVectorStore(name, 2, distance)
    \/ \E name \in CallNames, id \in Ids :
           \E e \in ConcEmbeddings(id) : AddPayload(name, id, e)
    \/ \E name \in CallNames, q \in LifeQueries, k \in TopKs,
          distance_type \in CallDistanceArgs, fault \in Faults :
           SvcSearchVectorsIn(name, q, k, distance_type, fault)

SpecCall == Init /\ [][NextCall]_vars

\* creation and deletion of collections under failures of the database
NextDel ==
    \/ \E name \in Names : AddVectorStore(name, 2, "Cosine")
    \/ \E name \in Names, id \in Ids :
           AddPayload(name, id, EmbeddingOf(id))
    \/ \E name \in Names, fault \in DeleteFaults :
           DeleteCollectionCall(name, fault)

SpecDel == Init /\ [][NextDel]_vars

\* calls of compute_similarity
SimVectors == {<<>>, <<0>>, <<2>>, <<0, 0>>, <<1, 0>>, <<2, 0>>, <<0, 1>>,
               <<1, 1>>, <<2, 2>>, <<1, 0, 1>>}

NextSim ==
    \E m \in Distance, a \in SimVectors, b \in SimVectors :
        ComputeSimilarityCall(m, a, b)

SpecSim == Init /\ [][NextSim]_vars

\* concurrent callers of search_vectors
NextConc ==
    \/ \E name \in Names : AddVectorStore(name, 2, "Cosine")
    \/ \E name \in Names, id \in Ids :
           \E e \in ConcEmbeddings(id) : AddPayload(name, id, e)
    \/ \E t \in Tasks, api \in BOOLEAN, name \in Names, q \in ConcQueries :
           Call(t, api, name, q, MaxTopK)
    \/ \E t \in Tasks : GetConfig(t)
    \/ \E t \in Tasks : Build(t)
    \/ \E t \in Tasks : Cancel(t)

SpecConc == Init /\ [][NextConc]_vars

\* ------------------------------------------------------------------ claims
StoredIds(name) ==
    {vectors[i].id : i \in {j \in DOMAIN vectors :
                               vectors[j].vector_store_name = name}}

Searched == last.op # "none"
Answered == Searched /\ last.err.exc = "none"

\* C1: at no time are two callers both building the index of the same
\* collection (both past the cache miss, with its points and config loaded).
C1_OneBuildInFlight ==
    \A t1 \in Tasks, t2 \in Tasks :
        (t1 # t2 /\ pc[t1] = "build" /\ pc[t2] = "build")
            => req[t1].name # req[t2].name

\* C2: an API search request never builds the index of a collection whose
\* index an earlier API request built, when the collection was not written
\* in between.
C2_BuiltAtMostOnce == (Searched /\ last.api /\ last.built) => ~last.rebuilt

\* C3: a search that starts after a point was added to a collection (the
\* write, and whatever invalidation the service offers, being complete) is
\* served from an index that contains every stored point of the collection.
C3_SearchSeesWrittenPoints == Answered => StoredIds(last.name) \subseteq last.served

\* C4: a search returns at most min(top_k, point_count) results, where
\* point_count is the number of points of the index that answered (the
\* collection's stored points when the index was built by this call), and
\* no two results carry the same id.
C4_AtMostTopKDistinct ==
    Searched =>
        /\ Len(last.results) <= Min(last.top_k, last.npoints)
        /\ last.built => last.npoints = Cardinality(StoredIds(last.name))
        /\ \A i \in DOMAIN last.results, j \in DOMAIN last.results :
               i # j => last.results[i].id # last.results[j].id

\* C4 witness: a search with top_k = 1 on an index of two points returned
\* one result.
C4_Witness ==
    /\ last.op = "search_vectors"
    /\ last.npoints = 2
    /\ last.top_k = 1
    /\ Len(last.results) = 1

\* C5: the scores of the results of a search are in non-increasing order.
C5_ScoresNonIncreasing ==
    Searched =>
        \A i \in DOMAIN last.results, j \in DOMAIN last.results :
            i < j => ScoreLeq(last.results[j].score, last.results[i].score)

NoDuplicateEmbeddings(name) ==
    \A i \in DOMAIN vectors, j \in DOMAIN vectors :
        (i # j /\ vectors[i].vector_store_name = name
               /\ vectors[j].vector_store_name = name)
            => vectors[i].embedding # vectors[j].embedding

\* C6: search_by_id on a stored point of a collection without duplicate
\* embeddings returns that point as its first result.
C6_SelfIsTop ==
    (/\ last.op = "search_by_id"
     /\ last.point_id \in StoredIds(last.name)
     /\ NoDuplicateEmbeddings(last.name)
     /\ last.err.exc = "none")
        => /\ Len(last.results) >= 1
           /\ last.results[1].id = last.point_id

\* C7: a search_vectors call that repeats the arguments of the call before
\* it, with no write to storage between the two, returns what that call
\* returned (the same results in the same order, or the same error).
C7_Deterministic ==
    [][(last.op = "search_vectors" /\ last'.op = "search_vectors"
            /\ last'.repeat)
          => (last'.results = last.results /\ last'.err = last.err)]_vars

\* C7 witness: a repeated search_vectors call was answered from the cache
\* with two results.
C7_Witness ==
    /\ last.op = "search_vectors"
    /\ last.repeat
    /\ last.hit
    /\ Len(last.results) = 2

\* C8: search_vectors on a collection that exists and holds zero points
\* returns an empty result sequence and does not fail.
C8_EmptyCollectionEmptyResult ==
    (/\ last.op = "search_vectors"
     /\ last.name \in DOMAIN collections
     /\ StoredIds(last.name) = {})
        => (last.err.exc = "none" /\ last.results = <<>>)

PointNotFound(err) == err.exc = "ValueError" /\ err.msg = "Point not found"
CollectionNotFound(err) == err.exc = "FileNotFoundError"

\* C9: search_by_id with an id that is not stored in the named collection
\* fails with the point-not-found error and returns no results, also when
\* the id is stored in another collection.
C9_UnknownIdFails ==
    (last.op = "search_by_id" /\ last.point_id \notin StoredIds(last.name))
        => (PointNotFound(last.err) /\ last.results = <<>>)

\* C9 witness: search_by_id failed on a collection that holds points and a
\* config, for an id that is stored in another collection.
C9_Witness ==
    /\ last.op = "search_by_id"
    /\ last.point_id \in StoredIdsAll(vectors) \ StoredIds(last.name)
    /\ StoredIds(last.name) # {}
    /\ last.name \in DOMAIN collections
    /\ PointNotFound(last.err)

\* C10: the API layer answers every collection-not-found and every
\* point-not-found failure of a search with status 404.
C10_NotFoundIs404 ==
    (Searched /\ last.api
              /\ (CollectionNotFound(last.err) \/ PointNotFound(last.err)))
        => last.http = 404

\* the error the endpoints answer as an invalid argument (status 400)
InvalidArgument(err) == err.exc = "ValueError"

\* C11: a search_vectors request with an empty query vector or with
\* top_k <= 0 fails with the invalid-argument error, whatever the distance
\* kind of the collection (stated for the collections that are stored and
\* hold points, where no other failure can come first).
C11_InvalidArguments ==
    (/\ last.op = "search_vectors"
     /\ (last.query = <<>> \/ last.top_k <= 0)
     /\ last.name \in DOMAIN collections
     /\ StoredIds(last.name) # {})
        => InvalidArgument(last.err)

\* the dimensionality of the index that a request builds for a collection
IndexDim(name) == Len(LoadPoints(vectors, name)[1].embedding)

\* C12: a search_vectors request (non-empty query, top_k > 0) on a stored,
\* non-empty collection whose query length differs from the dimensionality
\* of the collection's index fails with the invalid-argument error and is
\* answered 400, not 500.
C12_DimensionMismatchIsInvalidArgument ==
    (/\ last.op = "search_vectors" /\ last.api
     /\ last.query # <<>> /\ last.top_k > 0
     /\ last.name \in DOMAIN collections
     /\ StoredIds(last.name) # {}
     /\ Len(last.query) # IndexDim(last.name))
        => (InvalidArgument(last.err) /\ last.http = 400)

\* C13: every search_vectors call on a collection name that storage does
\* not hold when the call is made fails with the collection-not-found
\* error, whatever searches and deletions came before it.
C13_MissingCollectionFails ==
    (last.op = "search_vectors" /\ last.name \notin DOMAIN collections)
        => (CollectionNotFound(last.err) /\ last.results = <<>>)

\* C14: for every entry of the index cache whose collection is stored, each
\* point of the entry has an embedding of the length that the collection's
\* config declares as size, and the entry's distance kind is the distance
\* that the config declares.
C14_CacheAgreesWithConfig ==
    \A n \in DOMAIN index_cache :
        n \in DOMAIN collections =>
            /\ \A i \in DOMAIN index_cache[n].points :
                   Len(index_cache[n].points[i].embedding)
                       = collections[n].size
            /\ index_cache[n].distance_type = collections[n].distance

\* an entry as _build_index completes it: the index holds the embedding of
\* every snapshot point in order, with the point list, the ordinal mapping
\* and the distance kind
FullyBuilt(entry) ==
    /\ Len(entry.points) > 0
    /\ DOMAIN entry.index.xb = DOMAIN entry.points
    /\ \A i \in DOMAIN entry.points :
           entry.index.xb[i].v = entry.points[i].embedding
    /\ DOMAIN entry.id_mapping = 0..(Len(entry.points) - 1)
    /\ \A i \in DOMAIN entry.id_mapping :
           entry.id_mapping[i] = entry.points[i + 1]
    /\ entry.distance_type \in Distance
    /\ entry.index.metric = FaissMetric(entry.distance_type)

\* C15: under concurrent searches, cancelled callers and failing builds,
\* every collection name is absent from the index cache or mapped to a
\* fully built entry.
C15_CacheEntriesFullyBuilt ==
    \A n \in DOMAIN index_cache : FullyBuilt(index_cache[n])

\* C15 witness: the cache holds an entry built by one caller while another
\* caller of the same collection was cancelled or saw its build fail.
C15_Witness ==
    \E t1 \in Tasks, t2 \in Tasks :
        /\ t1 # t2 /\ req[t1].name = req[t2].name
        /\ ~req[t1].api /\ ~req[t2].api
        /\ tres[t1].done /\ tres[t1].built
        /\ tres[t2].done
        /\ tres[t2].err.exc \in {"CancelledError", "ValueError"}
        /\ req[t1].name \in DOMAIN index_cache

StoredEmbedding(id) ==
    vectors[CHOOSE i \in DOMAIN vectors : vectors[i].id = id].embedding

\* the cosine of two non-zero vectors, as the real d / sqrt(n)
CosineOf(a, b) == [d |-> Dot(a, b), n |-> Dot(a, a) * Dot(b, b)]

\* the score s is (1 + c) / 2 for the real c
IsHalfOnePlus(s, c) == s.kind = "half" /\ SurdEq(s.x, c)

\* C17: in a Cosine collection (non-zero vectors) the score of each result
\* is (1 + c) / 2 for the cosine c of the query and the point's embedding;
\* with the points [1,0,0] and [0,1,0], the query [1,0,0] and top_k = 2 the
\* result is the first point with score 1 (c = 1), then the second point
\* with score 1/2 (c = 0).
C17_CosineScores ==
    (Answered /\ last.name \in DOMAIN collections
              /\ collections[last.name].distance = "Cosine") =>
        /\ \A i \in DOMAIN last.results :
               IsHalfOnePlus(last.results[i].score,
                   CosineOf(last.query, StoredEmbedding(last.results[i].id)))
        /\ (/\ last.query = <<1, 0, 0>> /\ last.top_k = 2
            /\ last.npoints = 2
            /\ \E p1 \in last.served, p2 \in last.served :
                   /\ StoredEmbedding(p1) = <<1, 0, 0>>
                   /\ StoredEmbedding(p2) = <<0, 1, 0>>)
               => /\ Len(last.results) = 2
                  /\ StoredEmbedding(last.results[1].id) = <<1, 0, 0>>
                  /\ StoredEmbedding(last.results[2].id) = <<0, 1, 0>>
                  /\ IsHalfOnePlus(last.results[1].score, [d |-> 1, n |-> 1])
                  /\ IsHalfOnePlus(last.results[2].score, [d |-> 0, n |-> 1])

\* C17 witness: the search of the example returned two results.
C17_Witness ==
    /\ last.op = "search_vectors" /\ last.query = <<1, 0, 0>>
    /\ last.top_k = 2 /\ Len(last.results) = 2
    /\ StoredEmbedding(last.results[1].id) = <<1, 0, 0>>
    /\ StoredEmbedding(last.results[2].id) = <<0, 1, 0>>

ZeroNorm(x) == \A i \in DOMAIN x : x[i] = 0

\* C18: compute_similarity with the Cosine metric fails (raises an error,
\* returns no value) whenever one of the two vectors has zero norm (stated
\* for two vectors of one positive length, such as an all-zero vector).
C18_CosineZeroNormFails ==
    (/\ sim.called /\ sim.metric = "Cosine"
     /\ Len(sim.a) > 0 /\ Len(sim.a) = Len(sim.b)
     /\ (ZeroNorm(sim.a) \/ ZeroNorm(sim.b)))
        => sim.err.exc # "none"

\* C19: compute_similarity fails with the dimension-mismatch error (the
\* ValueError that the endpoint answers 400) for every metric whenever the
\* two vectors differ in length or are both empty.
C19_LengthMismatchFails ==
    (sim.called /\ (Len(sim.a) # Len(sim.b)
                       \/ (Len(sim.a) = 0 /\ Len(sim.b) = 0)))
        => sim.err.exc = "ValueError"

\* the order of two returned floats: x > y (false when either is NaN)
SimGreater(x, y) ==
    /\ ~x.nan /\ ~y.nan
    /\ ~SurdLeq([d |-> x.d, n |-> x.n], [d |-> y.d, n |-> y.n])

\* a call that returned a number for two vectors of one positive length
Compared(c) ==
    /\ c.called /\ c.err.exc = "none" /\ ~c.value.nan
    /\ Len(c.a) > 0 /\ Len(c.a) = Len(c.b)

\* C20 as stated: for each of the four metrics, a call that compares v with
\* itself and the next call, which compares v with some w under the same
\* metric, return values with similarity(v, v) >= similarity(v, w).
C20_SelfSimilarityIsMax ==
    [][(/\ Compared(sim) /\ sim.a = sim.b
        /\ Compared(sim') /\ sim'.metric = sim.metric
        /\ sim'.a = sim.a /\ Len(sim'.b) = Len(sim.a))
          => ~SimGreater(sim'.value, sim.value)]_vars

\* C20 amended: the same for the metrics Cosine, Euclidean and Manhattan.
C20_SelfSimilarityIsMaxExceptDot ==
    [][(/\ Compared(sim) /\ sim.a = sim.b
        /\ sim.metric # "Dot"
        /\ Compared(sim') /\ sim'.metric = sim.metric
        /\ sim'.a = sim.a /\ Len(sim'.b) = Len(sim.a))
          => ~SimGreater(sim'.value, sim.value)]_vars

\* C20 witness: a call under a metric other than Dot returned a value for
\* two different vectors of one length, below the value of the first
\* vector compared with itself.
C20_Witness ==
    /\ Compared(sim) /\ sim.metric # "Dot" /\ sim.a # sim.b
    /\ SimGreater(ComputeSimilarity(sim.metric, sim.a, sim.a).value,
                  sim.value)

\* the vector s * v
Scale(s, v) == [i \in DOMAIN v |-> s * v[i]]
Scales == {2}

\* two returned floats are the same number
SimEqual(x, y) ==
    /\ ~x.nan /\ ~y.nan
    /\ SurdEq([d |-> x.d, n |-> x.n], [d |-> y.d, n |-> y.n])

\* C21: a Cosine call on non-degenerate vectors a, b of one length and the
\* next Cosine call, on s * a and b or on a and s * b for a positive scalar
\* s, return the same value.
C21_CosineScaleInvariant ==
    [][(/\ Compared(sim) /\ sim.metric = "Cosine"
        /\ Compared(sim') /\ sim'.metric = "Cosine"
        /\ \E s \in Scales :
               \/ sim'.a = Scale(s, sim.a) /\ sim'.b = sim.b
               \/ sim'.a = sim.a /\ sim'.b = Scale(s, sim.b))
          => SimEqual(sim'.value, sim.value)]_vars

\* C21 witness: a Cosine call on a scaled vector and a vector that is
\* neither parallel nor orthogonal to it returned a value.
C21_Witness ==
    /\ Compared(sim) /\ sim.metric = "Cosine"
    /\ sim.a = <<1, 0>> /\ sim.b = Scale(2, <<1, 1>>)
    /\ SimEqual(sim.value,
                ComputeSimilarity("Cosine", <<1, 0>>, <<1, 1>>).value)
    /\ sim.value.d # 0

\* C22: whenever loading the points, loading the config or a step of the
\* index construction (training included) fails during a search, the
\* search fails and returns no results.
C22_NoFailureSwallowed ==
    (Searched /\ last.fault # "none")
        => (last.err.exc # "none" /\ last.results = <<>>)

\* C28: a search whose index build does not complete (no points, no
\* config, a construction error or a failing step) leaves the index cache
\* as it was, with no entry for the collection.
C28_FailedBuildLeavesCache ==
    [][(last'.op = "search_vectors" /\ ~last'.hit /\ ~last'.built)
          => (/\ index_cache' = index_cache
              /\ last'.name \notin DOMAIN index_cache')]_vars

\* C28 witness: a search of stored points failed for the missing config.
C28_Witness ==
    /\ last.op = "search_vectors" /\ ~last.hit /\ ~last.built
    /\ StoredIds(last.name) # {}
    /\ last.err = Raise("FileNotFoundError", "Vector store not found")

SnapshotIds(entry) == {entry.points[i].id : i \in DOMAIN entry.points}

\* C23: on one service instance, a search of a collection that has a cache
\* entry loads no points and no config (their absence from storage cannot
\* fail it), builds nothing, is served from the entry's snapshot and
\* leaves the index cache unchanged.
C23_CacheHitFrame ==
    [][(last'.op # "none" /\ last'.hit)
          => (/\ index_cache' = index_cache
              /\ ~last'.built
              /\ ~CollectionNotFound(last'.err)
              /\ last'.served = SnapshotIds(index_cache[last'.name]))]_vars

\* C23 witness: a search was answered from the cache entry of a collection
\* that storage no longer holds.
C23_Witness ==
    /\ Answered /\ last.hit
    /\ last.name \notin DOMAIN collections
    /\ StoredIds(last.name) = {}

\* C24: search_by_id of a point stored in the collection returns (or
\* raises) exactly what search_vectors returns for the embedding that
\* storage holds for the point, in the same cache and storage state, and
\* leaves the cache as that call leaves it.
C24_ByIdIsByStoredVector ==
    [][(last'.op = "search_by_id" /\ last'.point_id \in StoredIds(last'.name))
          => LET o == SearchVectors(index_cache, collections, vectors,
                          last'.name, StoredEmbedding(last'.point_id),
                          last'.top_k)
             IN  /\ last'.results = o.results
                 /\ last'.err = o.err
                 /\ index_cache' = o.cache]_vars

\* C24 witness: search_by_id was answered from a cache entry whose
\* snapshot does not hold the queried point.
C24_Witness ==
    /\ last.op = "search_by_id" /\ Answered /\ last.hit
    /\ last.point_id \in StoredIds(last.name)
    /\ last.point_id \notin last.served
    /\ Len(last.results) >= 1

\* C27: every result of a search answered from a cache entry is a point of
\* the snapshot the entry was built from, and a search_vectors call returns
\* what the query of that entry returns, whatever points storage has gained
\* or lost since the build.
C27_ResultsFromSnapshot ==
    [][(last'.op # "none" /\ last'.hit /\ last'.err.exc = "none")
          => (/\ \A i \in DOMAIN last'.results :
                     last'.results[i].id
                         \in SnapshotIds(index_cache[last'.name])
              /\ last'.op = "search_vectors" =>
                     last'.results =
                         QueryIndex(index_cache[last'.name], last'.query,
                                    last'.top_k).results)]_vars

\* C27 witness: a search was answered from a cache entry while storage
\* holds a point of the collection that the entry's snapshot lacks.
C27_Witness ==
    /\ last.op = "search_vectors" /\ Answered /\ last.hit
    /\ Len(last.results) >= 1
    /\ last.name \in DOMAIN collections
    /\ StoredIds(last.name) \ last.served # {}

\* the query vector of the last call
LastQuery ==
    IF last.op = "search_by_id" THEN StoredEmbedding(last.point_id)
    ELSE last.query

\* the embedding of point id in a cache entry's snapshot
SnapshotEmbedding(entry, id) ==
    entry.points[CHOOSE i \in DOMAIN entry.points :
                     entry.points[i].id = id].embedding

\* the raw distance of query q and embedding p in the space of a distance
\* kind: the cosine, the inner product or the squared Euclidean distance
ExpectedRaw(kind, q, p) ==
    IF kind = "Cosine" THEN CosineOf(q, p)
    ELSE IF kind = "Dot" THEN [d |-> Dot(q, p), n |-> 1]
    ELSE [d |-> SqDist(q, p), n |-> 1]

\* C25: in every cache entry the stored embeddings are L2-normalised
\* exactly when the entry's distance kind is Cosine and the index space is
\* inner product for Cosine and Dot, Euclidean for Euclidean and Manhattan;
\* the query is normalised under the same condition, so every score is the
\* conversion of the cosine, of the inner product or of the squared
\* Euclidean distance between the query and the stored embedding.
C25_BuildAndQueryAgree ==
    /\ \A n \in DOMAIN index_cache :
           LET e == index_cache[n]
           IN  /\ \A i \in DOMAIN e.index.xb :
                      e.index.xb[i].unit <=> (e.distance_type = "Cosine")
               /\ e.index.metric =
                      (IF e.distance_type \in {"Cosine", "Dot"}
                       THEN "IP" ELSE "L2")
    /\ (Answered /\ last.name \in DOMAIN index_cache) =>
           LET e == index_cache[last.name]
           IN  \A i \in DOMAIN last.results :
                   SurdEq(last.results[i].score.x,
                          ExpectedRaw(e.distance_type, LastQuery,
                              SnapshotEmbedding(e, last.results[i].id)))

\* C25 witness: a Cosine entry answered a query that is not a unit vector.
C25_Witness ==
    /\ last.op = "search_by_id" /\ Answered
    /\ index_cache[last.name].distance_type = "Cosine"
    /\ Dot(LastQuery, LastQuery) > 1
    /\ Len(last.results) = 2

\* C26: in every cache entry with n snapshot points the ordinal mapping is
\* defined exactly on 0..n-1 and maps ordinal i to the point whose
\* embedding is the i-th vector of the index; every result of a search is
\* such a point.
C26_OrdinalMapping ==
    /\ \A n \in DOMAIN index_cache :
           LET e == index_cache[n]
           IN  /\ DOMAIN e.id_mapping = 0..(Len(e.points) - 1)
               /\ Len(e.index.xb) = Len(e.points)
               /\ \A i \in DOMAIN e.id_mapping :
                      /\ e.id_mapping[i] = e.points[i + 1]
                      /\ e.index.xb[i + 1].v = e.id_mapping[i].embedding
    /\ (Answered /\ last.name \in DOMAIN index_cache) =>
           \A i \in DOMAIN last.results :
               last.results[i].id \in SnapshotIds(index_cache[last.name])

\* C26 witness: an entry of two points answered with both of them.
C26_Witness ==
    /\ Answered /\ last.name \in DOMAIN index_cache
    /\ Len(index_cache[last.name].points) = 2
    /\ Len(last.results) = 2
    /\ last.results[1].id # last.results[2].id

\* C30: delete_collection returns True only when the collection row and
\* every vector of the collection are gone from storage, and when it
\* returns False the row and the vectors are as they were before the call.
C30_DeleteAllOrNothing ==
    deleted.called =>
        /\ deleted.ret => (~deleted.rowAfter /\ deleted.idsAfter = {})
        /\ ~deleted.ret => (/\ deleted.rowAfter = deleted.rowBefore
                            /\ deleted.idsAfter = deleted.idsBefore)

====
